---- MODULE Spec2Model ----
(***************************************************************************)
(* Model of the cocktail API (src/main.py): the SQLAlchemy tables, the     *)
(* create_cocktail handler with its intermediate commits, and the two read *)
(* handlers.  Every request handler runs in its own Session on the shared  *)
(* SQLite database, so the committed tables are the shared state and the   *)
(* rows a Session has added or flushed but not committed are per-worker.   *)
(*                                                                         *)
(* Granularity: one action per database round trip of create_cocktail      *)
(* (INSERT+COMMIT, autoflush+SELECT).  Statements that touch only the      *)
(* Session (db.add of a row, relationship append, the instruction loop)    *)
(* are executed with the database statement that precedes them.            *)
(***************************************************************************)
EXTENDS Integers, Sequences, FiniteSets, TLC

\* Python None / SQL NULL for Optional[str] values.
None == "None"

\* Optional[T] for structured T is a sequence of length <= 1.
Absent == <<>>
Some(x) == <<x>>

----------------------------------------------------------------------------
(* Bounds *)

\* Longest ingredient list of an input document.
MaxIngredients == 2
\* Longest instruction list of an input document.
MaxInstructions == 2
\* Longest garnish list of an input document.
MaxGarnish == 2
\* Most names in tags and flavor_tags together in an input document.
MaxTags == 2

\* Request handlers run on thread-pool workers; each worker serves one
\* create_cocktail call, so at most Cardinality(Workers) recipes exist.
Workers == {1, 2}

\* Identities a reader asks for: every identity that can be issued and one
\* that never is.
ReadIds == 1..(Cardinality(Workers) + 1)

----------------------------------------------------------------------------
(* Input documents (CocktailCreate) *)

SeqsOfLen(S, n) == [1..n -> S]
SeqsUpTo(S, n) == UNION {SeqsOfLen(S, k) : k \in 0..n}

\* IngredientCreate values.
IngredientLines ==
    { [name |-> "Lime", quantity |-> "1", unit |-> "oz", notes |-> None],
      [name |-> "Lime", quantity |-> "2", unit |-> None, notes |-> "wheel"] }

InstructionTexts == {"Shake", "Strain"}
GarnishNames == {"Lime", "Mint"}
TagNames == {"Sweet"}

\* MetadataCreate with every scalar set.
FullMetadata(g, t, f) ==
    [difficulty |-> "easy", glass_type |-> "coupe", cover_image |-> "img.png",
     garnish |-> g, tags |-> t, flavor_tags |-> f]

\* MetadataCreate with every scalar left out.
BareMetadata(g, t, f) ==
    [difficulty |-> None, glass_type |-> None, cover_image |-> None,
     garnish |-> g, tags |-> t, flavor_tags |-> f]

\* CocktailCreate.
CocktailCreate(author, description, ings, instrs, meta) ==
    [title |-> "Daiquiri", author |-> author, description |-> description,
     ingredients |-> ings, instructions |-> instrs, metadata |-> meta]

\* Documents that vary the ingredient lines only; metadata is left out.
IngredientDocs ==
    { CocktailCreate("Ann", "classic", ings, <<>>, Absent) :
        ings \in SeqsUpTo(IngredientLines, MaxIngredients) }

\* Documents that vary the instruction list only; the metadata lists are
\* left out.
InstructionDocs ==
    { CocktailCreate(None, None, <<>>, ins,
                     Some(BareMetadata(Absent, Absent, Absent))) :
        ins \in SeqsUpTo(InstructionTexts, MaxInstructions) }

\* Documents that vary the garnish list only; tags is an empty list.
GarnishDocs ==
    { CocktailCreate("Ann", None, <<>>, <<>>,
                     Some(FullMetadata(Some(g), Some(<<>>), Absent))) :
        g \in SeqsUpTo(GarnishNames, MaxGarnish) }

\* Documents that vary tags and flavor_tags, MaxTags names in all.
TagDocs ==
    { CocktailCreate(None, "tagged", <<>>, <<>>,
                     Some(BareMetadata(Absent, Some(tf[1]), Some(tf[2])))) :
        tf \in { p \in SeqsUpTo(TagNames, MaxTags)
                        \X SeqsUpTo(TagNames, MaxTags) :
                    Len(p[1]) + Len(p[2]) <= MaxTags } }

\* A document that uses every part at once.
Daiquiri ==
    CocktailCreate("Ann", "classic",
        << [name |-> "Rum", quantity |-> "2", unit |-> "oz", notes |-> None],
           [name |-> "Lime", quantity |-> "1", unit |-> "oz", notes |-> None] >>,
        <<"Shake", "Strain">>,
        Some(FullMetadata(Some(<<"Lime">>), Some(<<"Sweet">>),
                          Some(<<"Sweet">>))))

Docs == IngredientDocs \cup InstructionDocs \cup GarnishDocs \cup TagDocs
            \cup {Daiquiri}

\* A document before any request was received.
NoDoc == CocktailCreate(None, None, <<>>, <<>>, Absent)

----------------------------------------------------------------------------
(* State *)

VARIABLES
    cocktails,            \* table cocktails; id = position
    ingredients,          \* table ingredients (names); id = position
    cocktail_ingredients, \* table cocktail_ingredients
    instructions,         \* table instructions
    tags,                 \* table tags; id = position
    garnishes,            \* table garnishes (names); id = position
    cocktail_tags,        \* association table cocktail_tags
    cocktail_garnishes,   \* association table cocktail_garnishes
    pc,                   \* per worker: position in create_cocktail
    cocktail,             \* per worker: the request body
    new_cocktail,         \* per worker: id of the Cocktail row, 0 before
    phase,                \* per worker: the loop being executed
    idx,                  \* per worker: position in that loop's list
    pending,              \* per worker: rows added to the Session, not flushed
    flushed,              \* per worker: rows flushed in the open transaction
    response              \* the response of the last step, if it returned one

tables == <<cocktails, ingredients, cocktail_ingredients, instructions, tags,
            garnishes, cocktail_tags, cocktail_garnishes>>
session == <<pc, cocktail, new_cocktail, phase, idx, pending, flushed>>
vars == <<tables, session, response>>

\* Rows of the four tables a Session writes lazily.
NoRows == [ci |-> <<>>, instr |-> <<>>, cg |-> <<>>, ct |-> <<>>]

Concat(a, b) ==
    [ci |-> a.ci \o b.ci, instr |-> a.instr \o b.instr,
     cg |-> a.cg \o b.cg, ct |-> a.ct \o b.ct]

NoResponse == [op |-> "none", arg |-> 0, status |-> 0, body |-> <<>>]

----------------------------------------------------------------------------
(* Sequence helpers *)

Map(s, F(_)) == [i \in 1..Len(s) |-> F(s[i])]

Range(s) == {s[i] : i \in 1..Len(s)}

Count(s, x) == Cardinality({i \in 1..Len(s) : s[i] = x})

\* The ORM returns each entity of a loaded collection once, at its first
\* position.
RECURSIVE Unique(_)
Unique(s) ==
    IF s = <<>> THEN <<>>
    ELSE LET front == SubSeq(s, 1, Len(s) - 1)
             last == s[Len(s)]
         IN IF last \in Range(front) THEN Unique(front)
            ELSE Append(Unique(front), last)

\* InsertByStep as sorted(..., reverse=True) would do it.
InsertByStep_descending(s, x) ==
    LET before == SelectSeq(s, LAMBDA r : r.step_number >= x.step_number)
        after == SelectSeq(s, LAMBDA r : r.step_number < x.step_number)
    IN before \o <<x>> \o after

\* sorted(rows, key=lambda x: x.step_number): stable, ascending.
InsertByStep(s, x) ==
    LET before == SelectSeq(s, LAMBDA r : r.step_number <= x.step_number)
        after == SelectSeq(s, LAMBDA r : r.step_number > x.step_number)
    IN before \o <<x>> \o after

RECURSIVE sorted(_)
sorted(s) ==
    IF s = <<>> THEN <<>>
    ELSE InsertByStep(sorted(SubSeq(s, 1, Len(s) - 1)), s[Len(s)])

\* Query(...).filter(...).first() on a table whose id is the position: the
\* lowest id whose row satisfies Match, 0 (None) when there is none.
First(table, Match(_)) ==
    IF \E i \in 1..Len(table) : Match(table[i])
    THEN CHOOSE i \in 1..Len(table) :
            /\ Match(table[i])
            /\ \A j \in 1..(i - 1) : ~Match(table[j])
    ELSE 0

----------------------------------------------------------------------------
(* serialize_cocktail and the relationships it reads *)

\* Cocktail.ingredients, Cocktail.instructions: the rows of this cocktail.
OfCocktail(rows, id) == SelectSeq(rows, LAMBDA r : r.cocktail_id = id)

\* Cocktail.garnishes: the Garnish entities linked through cocktail_garnishes.
cocktail_garnishes_of(id) ==
    Unique(Map(OfCocktail(cocktail_garnishes, id), LAMBDA r : r.garnish_id))

\* Cocktail.tags: the Tag entities linked through cocktail_tags.
cocktail_tags_of(id) ==
    Unique(Map(OfCocktail(cocktail_tags, id), LAMBDA r : r.tag_id))

tag_names(id, type) ==
    Map(SelectSeq(cocktail_tags_of(id), LAMBDA t : tags[t].type = type),
        LAMBDA t : tags[t].name)

IngredientRead(ci) ==
    [name |-> ingredients[ci.ingredient_id], quantity |-> ci.quantity,
     unit |-> ci.unit, notes |-> ci.notes]

serialize_cocktail(id) ==
    [id |-> id,
     title |-> cocktails[id].title,
     author |-> cocktails[id].author,
     description |-> cocktails[id].description,
     ingredients |-> Map(OfCocktail(cocktail_ingredients, id), IngredientRead),
     instructions |-> Map(sorted(OfCocktail(instructions, id)),
                          LAMBDA r : r.instruction_text),
     metadata |->
        [difficulty |-> cocktails[id].difficulty,
         glass_type |-> cocktails[id].glass_type,
         garnish |-> Map(cocktail_garnishes_of(id), LAMBDA g : garnishes[g]),
         tags |-> tag_names(id, "tag"),
         flavor_tags |-> tag_names(id, "flavor_tag"),
         cover_image |-> cocktails[id].cover_image]]

----------------------------------------------------------------------------
(* create_cocktail: the rows it builds *)

\* Cocktail with a default difficulty in place of None when metadata is left
\* out.
Cocktail_defaults(d) ==
    [title |-> d.title, author |-> d.author, description |-> d.description,
     difficulty |-> IF d.metadata # Absent THEN d.metadata[1].difficulty
                    ELSE "easy",
     glass_type |-> IF d.metadata # Absent THEN d.metadata[1].glass_type
                    ELSE None,
     cover_image |-> IF d.metadata # Absent THEN d.metadata[1].cover_image
                     ELSE None]

\* Cocktail(...): the scalars come from metadata when it is present.
Cocktail(d) ==
    [title |-> d.title, author |-> d.author, description |-> d.description,
     difficulty |-> IF d.metadata # Absent THEN d.metadata[1].difficulty
                    ELSE None,
     glass_type |-> IF d.metadata # Absent THEN d.metadata[1].glass_type
                    ELSE None,
     cover_image |-> IF d.metadata # Absent THEN d.metadata[1].cover_image
                     ELSE None]

\* CocktailIngredient with the two foreign keys passed in each other's place.
CocktailIngredient_ids_swapped(id, ingredient_id, ing) ==
    [cocktail_id |-> ingredient_id, ingredient_id |-> id,
     quantity |-> ing.quantity, unit |-> ing.unit, notes |-> ing.notes]

\* CocktailIngredient with quantity and unit passed in each other's place.
CocktailIngredient_swapped(id, ingredient_id, ing) ==
    [cocktail_id |-> id, ingredient_id |-> ingredient_id,
     quantity |-> ing.unit, unit |-> ing.quantity, notes |-> ing.notes]

\* CocktailIngredient(...).
CocktailIngredient(id, ingredient_id, ing) ==
    [cocktail_id |-> id, ingredient_id |-> ingredient_id,
     quantity |-> ing.quantity, unit |-> ing.unit, notes |-> ing.notes]

\* Instruction with step_number=idx, the 0-based index of enumerate.
Instruction_zero_based(id, texts) ==
    [i \in 1..Len(texts) |->
        [cocktail_id |-> id, step_number |-> i - 1,
         instruction_text |-> texts[i]]]

\* The instruction loop: enumerate(cocktail.instructions), step_number idx + 1.
Instruction(id, texts) ==
    [i \in 1..Len(texts) |->
        [cocktail_id |-> id, step_number |-> (i - 1) + 1,
         instruction_text |-> texts[i]]]

\* "cocktail.metadata and cocktail.metadata.<list>": the list, or nothing
\* when metadata or the list is None or empty.
MetadataList(d, ph) ==
    IF d.metadata = Absent THEN <<>>
    ELSE LET opt == CASE ph = "garnish" -> d.metadata[1].garnish
                      [] ph = "tags" -> d.metadata[1].tags
                      [] ph = "flavor_tags" -> d.metadata[1].flavor_tags
         IN IF opt = Absent THEN <<>> ELSE opt[1]

\* The names the loop of phase ph iterates over.
Names(d, ph) ==
    IF ph = "ingredients" THEN Map(d.ingredients, LAMBDA ing : ing.name)
    ELSE MetadataList(d, ph)

\* Tag.type written and filtered on by the two tag loops.
TagType(ph) == IF ph = "tags" THEN "tag" ELSE "flavor_tag"

NextPhase(ph) ==
    CASE ph = "ingredients" -> "instructions"
      [] ph = "instructions" -> "garnish"
      [] ph = "garnish" -> "tags"
      [] ph = "tags" -> "flavor_tags"
      [] ph = "flavor_tags" -> "commit"

\* Control reaches the loop of phase ph with rows pend added to the Session:
\* where the next database statement is, and what has been added by then.
RECURSIVE EnterPhase(_, _, _, _)
EnterPhase(d, id, ph, pend) ==
    IF ph = "commit"
    THEN [pc |-> "commit", phase |-> ph, idx |-> 0, pending |-> pend]
    ELSE IF ph = "instructions"
    THEN EnterPhase(d, id, NextPhase(ph),
             [pend EXCEPT !.instr = @ \o Instruction(id, d.instructions)])
    ELSE IF Len(Names(d, ph)) > 0
    THEN [pc |-> "query", phase |-> ph, idx |-> 1, pending |-> pend]
    ELSE EnterPhase(d, id, NextPhase(ph), pend)

\* Control after the body of iteration i of the loop of phase ph.
AfterItem(d, id, ph, i, pend) ==
    IF i < Len(Names(d, ph))
    THEN [pc |-> "query", phase |-> ph, idx |-> i + 1, pending |-> pend]
    ELSE EnterPhase(d, id, NextPhase(ph), pend)

----------------------------------------------------------------------------
(* The Session and the database *)

\* SQLite admits one write transaction at a time: a Session that has flushed
\* rows holds the write lock until it commits or is closed.
LockFree(w) == \A v \in Workers \ {w} : flushed[v] = NoRows

\* Lookup with the Tag.type condition left out of the filter.
Lookup_any_type(ph, name) ==
    CASE ph = "ingredients" -> First(ingredients, LAMBDA n : n = name)
      [] ph = "garnish" -> First(garnishes, LAMBDA n : n = name)
      [] ph \in {"tags", "flavor_tags"} ->
            First(tags, LAMBDA t : t.name = name)

\* db.query(Ingredient | Garnish | Tag).filter(...).first(): the id found, 0
\* for None.  The vocabulary tables hold committed rows only, because every
\* vocabulary row is committed by the statement after its db.add.
Lookup(ph, name) ==
    CASE ph = "ingredients" -> First(ingredients, LAMBDA n : n = name)
      [] ph = "garnish" -> First(garnishes, LAMBDA n : n = name)
      [] ph \in {"tags", "flavor_tags"} ->
            First(tags, LAMBDA t : t.name = name /\ t.type = TagType(ph))

\* The unique=True columns: Ingredient.name and Garnish.name.  Tag declares
\* no uniqueness on (name, type).
UniqueViolation(ph, name) ==
    CASE ph = "ingredients" -> name \in Range(ingredients)
      [] ph = "garnish" -> name \in Range(garnishes)
      [] ph \in {"tags", "flavor_tags"} -> FALSE

\* new_cocktail.<relationship>.append(obj) on a many-to-many relationship
\* whose association table has no key.  An entity that is not yet in the
\* collection gets a link row at the next flush.  For an entity that is
\* already in the collection the code leaves the outcome to the ORM's change
\* tracking: the flush may or may not emit a second, identical link row.
relationship_append(linked, rows, row) ==
    IF row \in Range(linked) THEN {rows, Append(rows, row)}
    ELSE {Append(rows, row)}

\* Attach that skips the CocktailIngredient of an ingredient the cocktail
\* already has a line for.
Attach_deduplicating(w, ph, obj, pend) ==
    LET id == new_cocktail[w]
        lines == cocktail_ingredients \o flushed[w].ci \o pending[w].ci
    IN
    CASE ph = "ingredients" ->
            IF \E i \in 1..Len(lines) :
                    lines[i].cocktail_id = id /\ lines[i].ingredient_id = obj
            THEN {pend}
            ELSE { [pend EXCEPT !.ci = Append(@,
                CocktailIngredient(id, obj, cocktail[w].ingredients[idx[w]]))] }
      [] ph = "garnish" ->
            { [pend EXCEPT !.cg = r] :
                r \in relationship_append(
                        cocktail_garnishes \o flushed[w].cg \o pending[w].cg,
                        pend.cg, [cocktail_id |-> id, garnish_id |-> obj]) }
      [] ph \in {"tags", "flavor_tags"} ->
            { [pend EXCEPT !.ct = r] :
                r \in relationship_append(
                        cocktail_tags \o flushed[w].ct \o pending[w].ct,
                        pend.ct, [cocktail_id |-> id, tag_id |-> obj]) }

\* The end of a loop body: the rows the Session holds after the found or
\* created entity obj was attached to the new cocktail (a set: see
\* relationship_append).
Attach(w, ph, obj, pend) ==
    LET id == new_cocktail[w] IN
    CASE ph = "ingredients" ->
            { [pend EXCEPT !.ci = Append(@,
                CocktailIngredient(id, obj, cocktail[w].ingredients[idx[w]]))] }
      [] ph = "garnish" ->
            { [pend EXCEPT !.cg = r] :
                r \in relationship_append(
                        cocktail_garnishes \o flushed[w].cg \o pending[w].cg,
                        pend.cg, [cocktail_id |-> id, garnish_id |-> obj]) }
      [] ph \in {"tags", "flavor_tags"} ->
            { [pend EXCEPT !.ct = r] :
                r \in relationship_append(
                        cocktail_tags \o flushed[w].ct \o pending[w].ct,
                        pend.ct, [cocktail_id |-> id, tag_id |-> obj]) }

\* COMMIT: the rows of the transaction become part of the tables.
CommitRows(rows) ==
    /\ cocktail_ingredients' = cocktail_ingredients \o rows.ci
    /\ instructions' = instructions \o rows.instr
    /\ cocktail_garnishes' = cocktail_garnishes \o rows.cg
    /\ cocktail_tags' = cocktail_tags \o rows.ct

\* The worker moves to position nxt of create_cocktail.
Goto(w, nxt) ==
    /\ pc' = [pc EXCEPT ![w] = nxt.pc]
    /\ phase' = [phase EXCEPT ![w] = nxt.phase]
    /\ idx' = [idx EXCEPT ![w] = nxt.idx]
    /\ pending' = [pending EXCEPT ![w] = nxt.pending]

\* An exception leaves create_cocktail: get_db closes the Session, which
\* rolls back the open transaction and drops what was not flushed.
Raise(w, exc) ==
    /\ pc' = [pc EXCEPT ![w] = exc]
    /\ pending' = [pending EXCEPT ![w] = NoRows]
    /\ flushed' = [flushed EXCEPT ![w] = NoRows]
    /\ response' = [op |-> "create", arg |-> new_cocktail[w], status |-> 500,
                    body |-> <<>>]
    /\ UNCHANGED <<tables, cocktail, new_cocktail, phase, idx>>

----------------------------------------------------------------------------
(* Actions *)

Init ==
    /\ cocktails = <<>>
    /\ ingredients = <<>>
    /\ cocktail_ingredients = <<>>
    /\ instructions = <<>>
    /\ tags = <<>>
    /\ garnishes = <<>>
    /\ cocktail_tags = <<>>
    /\ cocktail_garnishes = <<>>
    /\ pc = [w \in Workers |-> "idle"]
    /\ cocktail = [w \in Workers |-> NoDoc]
    /\ new_cocktail = [w \in Workers |-> 0]
    /\ phase = [w \in Workers |-> "idle"]
    /\ idx = [w \in Workers |-> 0]
    /\ pending = [w \in Workers |-> NoRows]
    /\ flushed = [w \in Workers |-> NoRows]
    /\ response = NoResponse

\* create_cocktail that merges into the existing Cocktail row of the same
\* title instead of inserting a new one.
create_cocktail_merging(w, d) ==
    /\ pc[w] = "idle"
    /\ \A v \in Workers : v < w => pc[v] # "idle"
    /\ LockFree(w)
    /\ LET old == First(cocktails, LAMBDA c : c.title = d.title)
           id == IF old # 0 THEN old ELSE Len(cocktails) + 1
       IN /\ cocktails' = IF old # 0 THEN cocktails
                          ELSE Append(cocktails, Cocktail(d))
          /\ new_cocktail' = [new_cocktail EXCEPT ![w] = id]
          /\ Goto(w, EnterPhase(d, id, "ingredients", NoRows))
    /\ cocktail' = [cocktail EXCEPT ![w] = d]
    /\ response' = NoResponse
    /\ UNCHANGED <<ingredients, cocktail_ingredients, instructions, tags,
                   garnishes, cocktail_tags, cocktail_garnishes, flushed>>

\* POST /cocktails, lines 180-190: the Cocktail row is inserted and
\* committed; control runs on to the first query or to the final commit.
\* The thread pool hands a request to its lowest idle worker.
create_cocktail(w, d) ==
    /\ pc[w] = "idle"
    /\ \A v \in Workers : v < w => pc[v] # "idle"
    /\ LockFree(w)
    /\ cocktails' = Append(cocktails, Cocktail(d))
    /\ cocktail' = [cocktail EXCEPT ![w] = d]
    /\ new_cocktail' = [new_cocktail EXCEPT ![w] = Len(cocktails) + 1]
    /\ Goto(w, EnterPhase(d, Len(cocktails) + 1, "ingredients", NoRows))
    /\ response' = NoResponse
    /\ UNCHANGED <<ingredients, cocktail_ingredients, instructions, tags,
                   garnishes, cocktail_tags, cocktail_garnishes, flushed>>

\* db.query(...).first() at lines 195, 223, 234, 244: autoflush sends the
\* added rows to the database inside the transaction, then the SELECT runs.
\* When the entity exists the loop body attaches it and control moves on;
\* otherwise the next statement is the INSERT of the new entity.
query(w) ==
    /\ pc[w] = "query"
    /\ pending[w] # NoRows => LockFree(w)
    /\ flushed' = [flushed EXCEPT ![w] = Concat(@, pending[w])]
    /\ LET d == cocktail[w]
           ph == phase[w]
           obj == Lookup(ph, Names(d, ph)[idx[w]])
       IN IF obj # 0
          THEN \E pend \in Attach(w, ph, obj, NoRows) :
                  Goto(w, AfterItem(d, new_cocktail[w], ph, idx[w], pend))
          ELSE Goto(w, [pc |-> "insert", phase |-> ph, idx |-> idx[w],
                        pending |-> NoRows])
    /\ response' = NoResponse
    /\ UNCHANGED <<tables, cocktail, new_cocktail>>

\* db.add(obj); db.commit(); db.refresh(obj) at lines 197-200, 225-228,
\* 236-239, 246-249, when no uniqueness constraint rejects the INSERT: the
\* new entity and every row of the open transaction are committed, then the
\* loop body attaches the entity.
insert(w) ==
    /\ pc[w] = "insert"
    /\ LockFree(w)
    /\ LET d == cocktail[w]
           ph == phase[w]
           name == Names(d, ph)[idx[w]]
       IN /\ ~UniqueViolation(ph, name)
          /\ ingredients' = IF ph = "ingredients"
                            THEN Append(ingredients, name) ELSE ingredients
          /\ garnishes' = IF ph = "garnish"
                          THEN Append(garnishes, name) ELSE garnishes
          /\ tags' = IF ph \in {"tags", "flavor_tags"}
                     THEN Append(tags, [name |-> name, type |-> TagType(ph)])
                     ELSE tags
          /\ CommitRows(Concat(flushed[w], pending[w]))
          /\ flushed' = [flushed EXCEPT ![w] = NoRows]
          /\ LET obj == CASE ph = "ingredients" -> Len(ingredients) + 1
                          [] ph = "garnish" -> Len(garnishes) + 1
                          [] OTHER -> Len(tags) + 1
             IN \E pend \in Attach(w, ph, obj, NoRows) :
                   Goto(w, AfterItem(d, new_cocktail[w], ph, idx[w], pend))
    /\ response' = NoResponse
    /\ UNCHANGED <<cocktails, cocktail, new_cocktail>>

\* The same statements when the name was committed by another Session since
\* the query: the INSERT violates the unique constraint, IntegrityError
\* leaves create_cocktail.
insert_conflict(w) ==
    /\ pc[w] = "insert"
    /\ LockFree(w)
    /\ UniqueViolation(phase[w], Names(cocktail[w], phase[w])[idx[w]])
    /\ Raise(w, "IntegrityError")

\* A statement that has to write while another Session holds the write lock
\* waits; when the wait exceeds the driver's timeout, OperationalError
\* ("database is locked") leaves create_cocktail.
NeedsWrite(w) ==
    \/ pc[w] = "idle" /\ \A v \in Workers : v < w => pc[v] # "idle"
    \/ pc[w] = "insert"
    \/ pc[w] \in {"query", "commit"} /\ pending[w] # NoRows

lock_timeout(w) ==
    /\ NeedsWrite(w)
    /\ ~LockFree(w)
    /\ Raise(w, "OperationalError")

\* db.commit(); db.refresh(new_cocktail); return serialize_cocktail(...),
\* lines 252-254.
final_commit(w) ==
    /\ pc[w] = "commit"
    /\ pending[w] # NoRows => LockFree(w)
    /\ CommitRows(Concat(flushed[w], pending[w]))
    /\ flushed' = [flushed EXCEPT ![w] = NoRows]
    /\ pending' = [pending EXCEPT ![w] = NoRows]
    /\ pc' = [pc EXCEPT ![w] = "done"]
    /\ UNCHANGED <<cocktails, ingredients, tags, garnishes, cocktail,
                   new_cocktail, phase, idx>>
    /\ response' = [op |-> "create", arg |-> new_cocktail[w], status |-> 201,
                    body |-> <<serialize_cocktail(new_cocktail[w])'>>]

\* find_cocktail with the filter left out: the first row of the table.
find_cocktail_unfiltered(cocktail_id) ==
    First([i \in 1..Len(cocktails) |-> i], LAMBDA i : TRUE)

\* db.query(Cocktail).filter(Cocktail.id == cocktail_id).first(): the id of
\* the row, 0 for None.
find_cocktail(cocktail_id) ==
    First([i \in 1..Len(cocktails) |-> i], LAMBDA i : i = cocktail_id)

\* get_cocktail that inserts an empty Cocktail row when none is found.
get_cocktail_creating(cocktail_id) ==
    /\ find_cocktail(cocktail_id) = 0
    /\ cocktails' = Append(cocktails, Cocktail(NoDoc))
    /\ UNCHANGED <<ingredients, cocktail_ingredients, instructions, tags,
                   garnishes, cocktail_tags, cocktail_garnishes, session>>
    /\ \E id \in {Len(cocktails) + 1} :
        response' = [op |-> "get", arg |-> cocktail_id, status |-> 200,
                     body |-> <<serialize_cocktail(id)'>>]

\* GET /cocktails/{cocktail_id}.
get_cocktail(cocktail_id) ==
    /\ LET row == find_cocktail(cocktail_id)
       IN response' =
            IF row = 0
            THEN [op |-> "get", arg |-> cocktail_id, status |-> 404,
                  body |-> <<>>]
            ELSE [op |-> "get", arg |-> cocktail_id, status |-> 200,
                  body |-> <<serialize_cocktail(row)>>]
    /\ UNCHANGED <<tables, session>>

\* get_cocktails with .first() in place of .all().
get_cocktails_first ==
    /\ response' = [op |-> "list", arg |-> 0, status |-> 200,
                    body |-> [i \in 1..(IF Len(cocktails) > 0 THEN 1 ELSE 0)
                                |-> serialize_cocktail(i)]]
    /\ UNCHANGED <<tables, session>>

\* GET /cocktails.
get_cocktails ==
    /\ response' = [op |-> "list", arg |-> 0, status |-> 200,
                    body |-> [i \in 1..Len(cocktails) |->
                                serialize_cocktail(i)]]
    /\ UNCHANGED <<tables, session>>

Next ==
    \/ \E w \in Workers, d \in Docs : create_cocktail(w, d)
    \/ \E w \in Workers : query(w)
    \/ \E w \in Workers : insert(w)
    \/ \E w \in Workers : insert_conflict(w)
    \/ \E w \in Workers : lock_timeout(w)
    \/ \E w \in Workers : final_commit(w)
    \/ \E id \in ReadIds : get_cocktail(id)
    \/ get_cocktails

Spec == Init /\ [][Next]_vars

----------------------------------------------------------------------------
(* Vocabulary of the properties *)

\* The worker whose create_cocktail call was issued identity id, and the
\* document that call received.
Owner(id) == CHOOSE w \in Workers : new_cocktail[w] = id
InputOf(id) == cocktail[Owner(id)]

Issued(id) == \E w \in Workers : new_cocktail[w] = id
Failed(w) == pc[w] \in {"IntegrityError", "OperationalError"}

\* Document doc shows every part of the input of its recipe.
Complete(doc) ==
    LET d == InputOf(doc.id) IN
    /\ Len(doc.instructions) = Len(d.instructions)
    /\ Len(doc.ingredients) = Len(d.ingredients)
    /\ Range(doc.metadata.garnish) = Range(MetadataList(d, "garnish"))
    /\ Range(doc.metadata.tags) = Range(MetadataList(d, "tags"))
    /\ Range(doc.metadata.flavor_tags) = Range(MetadataList(d, "flavor_tags"))

\* No committed row belongs to recipe id.
NoRowsOf(id) ==
    /\ id \notin 1..Len(cocktails)
    /\ OfCocktail(cocktail_ingredients, id) = <<>>
    /\ OfCocktail(instructions, id) = <<>>
    /\ OfCocktail(cocktail_garnishes, id) = <<>>
    /\ OfCocktail(cocktail_tags, id) = <<>>

NoDuplicates(s) == \A i, j \in 1..Len(s) : s[i] = s[j] => i = j

----------------------------------------------------------------------------
(* Properties *)

\* C1 (atomic visibility of create): every document that get_cocktail or
\* get_cocktails returns, also while the recipe's create_cocktail call is
\* still running, shows all the steps, all the ingredient lines and all the
\* garnish, tag and flavor-tag links of the recipe's input document.
C1_AtomicVisibility ==
    response.op \in {"get", "list"} =>
        \A i \in 1..Len(response.body) : Complete(response.body[i])

\* C2 (rollback on failure): once a create_cocktail call has failed, no
\* Recipe row, Step row, MeasuredIngredient row or link row of that call is
\* left in the committed tables.
C2_RollbackOnFailure ==
    \A w \in Workers :
        Failed(w) /\ new_cocktail[w] # 0 => NoRowsOf(new_cocktail[w])

\* C3 (vocabulary uniqueness under concurrency): in every reachable state
\* there is at most one Ingredient row per name, at most one Garnish row per
\* name and at most one Tag row per (name, type).
C3_VocabularyUnique ==
    /\ NoDuplicates(ingredients)
    /\ NoDuplicates(garnishes)
    /\ NoDuplicates(tags)

\* C4 (conflict-triggered re-lookup): a create_cocktail call whose INSERT of
\* an ingredient or garnish conflicts with a row another call committed
\* after the lookup re-reads that row and goes on, so no call ends with the
\* uniqueness violation as its error.
C4_ConflictRelookup ==
    \A w \in Workers : pc[w] # "IntegrityError"

\* The create_cocktail call that was issued identity id has returned.
Done(id) == Issued(id) /\ pc[Owner(id)] = "done"

\* Response r is the document a successful call of handler op returned.
Returned(r, op) == r.op = op /\ r.status \in {200, 201} /\ Len(r.body) = 1

\* The two sequences hold the same elements the same number of times.
SameBag(s, t) ==
    /\ Len(s) = Len(t)
    /\ \A x \in Range(s) \cup Range(t) : Count(s, x) = Count(t, x)

\* A metadata scalar of input document d, None when metadata is left out.
InputDifficulty(d) ==
    IF d.metadata = Absent THEN None ELSE d.metadata[1].difficulty
InputGlassType(d) ==
    IF d.metadata = Absent THEN None ELSE d.metadata[1].glass_type
InputCoverImage(d) ==
    IF d.metadata = Absent THEN None ELSE d.metadata[1].cover_image

\* C5 (idempotent find-or-create across recipes): the references of
\* completed create_cocktail calls to the same (kind, name) all resolve to
\* the same row: two ingredient lines with the same ingredient name, two
\* garnish links with the same garnish name and two tag links with the same
\* (name, type) point at the same Ingredient, Garnish or Tag id.
C5_SameEntity ==
    /\ \A i, j \in 1..Len(cocktail_ingredients) :
        LET a == cocktail_ingredients[i]
            b == cocktail_ingredients[j]
        IN Done(a.cocktail_id) /\ Done(b.cocktail_id)
           /\ ingredients[a.ingredient_id] = ingredients[b.ingredient_id]
           => a.ingredient_id = b.ingredient_id
    /\ \A i, j \in 1..Len(cocktail_garnishes) :
        LET a == cocktail_garnishes[i]
            b == cocktail_garnishes[j]
        IN Done(a.cocktail_id) /\ Done(b.cocktail_id)
           /\ garnishes[a.garnish_id] = garnishes[b.garnish_id]
           => a.garnish_id = b.garnish_id
    /\ \A i, j \in 1..Len(cocktail_tags) :
        LET a == cocktail_tags[i]
            b == cocktail_tags[j]
        IN Done(a.cocktail_id) /\ Done(b.cocktail_id)
           /\ tags[a.tag_id] = tags[b.tag_id]
           => a.tag_id = b.tag_id

\* C6 (step ordering): the instructions list of the document create_cocktail
\* returns, and of the document a get_cocktail returns once the create call
\* has returned, equals the input instruction list: same length, same texts,
\* same order.
C6_StepOrdering ==
    /\ Returned(response, "create") =>
        response.body[1].instructions = InputOf(response.arg).instructions
    /\ Returned(response, "get") /\ Done(response.arg) =>
        response.body[1].instructions = InputOf(response.arg).instructions

\* A get_cocktail returned a finished recipe whose two steps differ.
C6_Witness ==
    /\ Returned(response, "get")
    /\ Done(response.arg)
    /\ response.body[1].instructions = <<"Strain", "Shake">>

\* C7 (round trip): the document create_cocktail returns has the title,
\* author, description, difficulty, glass_type and cover_image of the input
\* document and one ingredient entry per input ingredient line, with that
\* line's name, quantity, unit and notes.
C7_RoundTrip ==
    Returned(response, "create") =>
        LET doc == response.body[1]
            d == InputOf(response.arg)
        IN /\ doc.id = response.arg
           /\ doc.title = d.title
           /\ doc.author = d.author
           /\ doc.description = d.description
           /\ doc.metadata.difficulty = InputDifficulty(d)
           /\ doc.metadata.glass_type = InputGlassType(d)
           /\ doc.metadata.cover_image = InputCoverImage(d)
           /\ SameBag(doc.ingredients, d.ingredients)

\* create_cocktail returned a recipe with two different ingredient lines and
\* with metadata scalars.
C7_Witness ==
    /\ Returned(response, "create")
    /\ Len(response.body[1].ingredients) = 2
    /\ response.body[1].ingredients[1] # response.body[1].ingredients[2]
    /\ response.body[1].metadata.difficulty = "easy"

\* C8 (tag partition): the tags and flavor_tags lists create_cocktail
\* returns hold exactly the input's tags and flavor_tags names; a name given
\* in both lists is linked through two different Tag rows, one of each type;
\* and every linked Tag row is of exactly one of the two types.
C8_TagPartition ==
    /\ Returned(response, "create") =>
        LET doc == response.body[1]
            d == InputOf(response.arg)
            plain == Range(MetadataList(d, "tags"))
            flavor == Range(MetadataList(d, "flavor_tags"))
            linked == Range(cocktail_tags_of(doc.id))
        IN /\ Range(doc.metadata.tags) = plain
           /\ Range(doc.metadata.flavor_tags) = flavor
           /\ \A n \in plain \cap flavor :
                \E i, j \in linked :
                    /\ i # j
                    /\ tags[i] = [name |-> n, type |-> "tag"]
                    /\ tags[j] = [name |-> n, type |-> "flavor_tag"]
    /\ \A i \in 1..Len(cocktail_tags) :
        LET t == tags[cocktail_tags[i].tag_id]
        IN (t.type = "tag") # (t.type = "flavor_tag")

\* create_cocktail returned a recipe whose input gives the same text as a
\* tag and as a flavor tag.
C8_Witness ==
    /\ Returned(response, "create")
    /\ "Sweet" \in Range(MetadataList(InputOf(response.arg), "tags"))
    /\ "Sweet" \in Range(MetadataList(InputOf(response.arg), "flavor_tags"))

C10_NotFound ==
    response.op = "get" =>
        /\ ~Issued(response.arg) =>
            response.status = 404 /\ response.body = <<>>
        /\ Done(response.arg) =>
            /\ Returned(response, "get")
            /\ response.body[1].id = response.arg
            /\ response.body[1].title = InputOf(response.arg).title
            /\ Complete(response.body[1])

\* get_cocktail was asked for an identity that was never issued while a
\* recipe exists.
C10_Witness ==
    /\ response.op = "get"
    /\ response.status = 404
    /\ Len(cocktails) > 0

\* The ingredient names of the lines before line i of document d.
EarlierNames(d, i) == {d.ingredients[j].name : j \in 1..(i - 1)}

\* C11 (duplicate ingredient lines): a recipe whose create_cocktail call has
\* returned has one CocktailIngredient row per input ingredient line, with
\* that line's quantity, unit and notes, also when lines repeat a name; the
\* rows of lines with the same name reference one Ingredient row of that
\* name; and a line that repeats the name of an earlier line of the same
\* document never makes the call fail on the uniqueness of Ingredient.name.
C11_DuplicateLines ==
    /\ \A id \in 1..Len(cocktails) :
        Done(id) =>
            LET rows == OfCocktail(cocktail_ingredients, id)
            IN /\ SameBag(Map(rows, IngredientRead), InputOf(id).ingredients)
               /\ \A i, j \in 1..Len(rows) :
                    ingredients[rows[i].ingredient_id]
                        = ingredients[rows[j].ingredient_id]
                    => rows[i].ingredient_id = rows[j].ingredient_id
    /\ \A w \in Workers :
        pc[w] = "IntegrityError" /\ phase[w] = "ingredients" =>
            cocktail[w].ingredients[idx[w]].name
                \notin EarlierNames(cocktail[w], idx[w])

\* A finished recipe with two lines of one ingredient name and different
\* quantities.
C11_Witness ==
    \E id \in 1..Len(cocktails) :
        /\ Done(id)
        /\ Len(InputOf(id).ingredients) = 2
        /\ InputOf(id).ingredients[1].name = InputOf(id).ingredients[2].name
        /\ InputOf(id).ingredients[1] # InputOf(id).ingredients[2]

\* C12 (step contiguity): in every reachable state the step numbers of the
\* n committed Instruction rows of a recipe are exactly 1..n, each used
\* once.
C12_StepContiguity ==
    \A id \in 1..Len(cocktails) :
        LET rows == OfCocktail(instructions, id)
            numbers == Map(rows, LAMBDA r : r.step_number)
        IN /\ Range(numbers) = 1..Len(rows)
           /\ NoDuplicates(numbers)

\* A recipe with two committed steps while another call is still running.
C12_Witness ==
    \E id \in 1..Len(cocktails) :
        /\ Len(OfCocktail(instructions, id)) = 2
        /\ \E w \in Workers : pc[w] \in {"query", "insert", "commit"}

\* C13 (referential integrity): in every reachable state, also after a
\* failed create_cocktail call, every committed CocktailIngredient row
\* references an existing Cocktail row and an existing Ingredient row, and
\* every committed Instruction row and every garnish or tag link row
\* references an existing Cocktail row (and an existing Garnish or Tag row).
C13_ReferentialIntegrity ==
    /\ \A i \in 1..Len(cocktail_ingredients) :
        /\ cocktail_ingredients[i].cocktail_id \in 1..Len(cocktails)
        /\ cocktail_ingredients[i].ingredient_id \in 1..Len(ingredients)
    /\ \A i \in 1..Len(instructions) :
        instructions[i].cocktail_id \in 1..Len(cocktails)
    /\ \A i \in 1..Len(cocktail_garnishes) :
        /\ cocktail_garnishes[i].cocktail_id \in 1..Len(cocktails)
        /\ cocktail_garnishes[i].garnish_id \in 1..Len(garnishes)
    /\ \A i \in 1..Len(cocktail_tags) :
        /\ cocktail_tags[i].cocktail_id \in 1..Len(cocktails)
        /\ cocktail_tags[i].tag_id \in 1..Len(tags)

\* A create_cocktail call has failed after an ingredient line of its recipe
\* was committed.
C13_Witness ==
    \E w \in Workers :
        /\ Failed(w)
        /\ new_cocktail[w] # 0
        /\ OfCocktail(cocktail_ingredients, new_cocktail[w]) # <<>>

\* C14 (listAll completeness): get_cocktails returns exactly one document
\* per Cocktail row: the identities in the list are those of the rows, each
\* once; every recipe whose create_cocktail call has returned is in it once,
\* with all of its parts; and every identity in it was issued by a call.
C14_ListAll ==
    response.op = "list" =>
        LET ids == Map(response.body, LAMBDA doc : doc.id)
        IN /\ Range(ids) = 1..Len(cocktails)
           /\ NoDuplicates(ids)
           /\ \A id \in Range(ids) : Issued(id)
           /\ \A i \in 1..Len(response.body) :
                Done(response.body[i].id) =>
                    /\ Count(ids, response.body[i].id) = 1
                    /\ Complete(response.body[i])

\* get_cocktails returned two documents after two calls had returned.
C14_Witness ==
    /\ response.op = "list"
    /\ Len(response.body) = 2
    /\ Done(1)
    /\ Done(2)

\* Document d gives no garnish, tag or flavor tag: metadata or the lists are
\* left out or empty.
NoVocabulary(d) ==
    /\ MetadataList(d, "garnish") = <<>>
    /\ MetadataList(d, "tags") = <<>>
    /\ MetadataList(d, "flavor_tags") = <<>>

\* C15 (absent metadata): a create_cocktail call whose document gives no
\* garnish, tag or flavor tag never runs a garnish or tag lookup or INSERT
\* and never has a link row, flushed or not; when metadata is left out the
\* Cocktail row's difficulty, glass_type and cover_image are None; and the
\* document the call returns has empty garnish, tags and flavor_tags lists.
C15_AbsentMetadata ==
    /\ \A w \in Workers :
        new_cocktail[w] # 0 /\ NoVocabulary(cocktail[w]) =>
            LET id == new_cocktail[w]
                rows == Concat(flushed[w], pending[w])
            IN /\ phase[w] \in {"ingredients", "commit"}
               /\ pc[w] = "IntegrityError" => cocktail[w].ingredients # <<>>
               /\ OfCocktail(cocktail_garnishes \o rows.cg, id) = <<>>
               /\ OfCocktail(cocktail_tags \o rows.ct, id) = <<>>
               /\ cocktail[w].metadata = Absent =>
                    /\ cocktails[id].difficulty = None
                    /\ cocktails[id].glass_type = None
                    /\ cocktails[id].cover_image = None
    /\ Returned(response, "create")
            /\ NoVocabulary(InputOf(response.arg)) =>
        LET m == response.body[1].metadata
        IN /\ m.garnish = <<>>
           /\ m.tags = <<>>
           /\ m.flavor_tags = <<>>
           /\ InputOf(response.arg).metadata = Absent =>
                /\ m.difficulty = None
                /\ m.glass_type = None
                /\ m.cover_image = None

\* create_cocktail returned for a document without metadata.
C15_Witness ==
    /\ Returned(response, "create")
    /\ InputOf(response.arg).metadata = Absent

\* C16 (stability of a created recipe): the step in which a create_cocktail
\* call returns hands out the recipe's document; from then on no step
\* changes the recipe's rows or its document; and a get_cocktail of that
\* identity returns that document.
C16_Stability ==
    [][\A id \in ReadIds :
        /\ ~Done(id) /\ Done(id)' =>
            /\ response'.op = "create"
            /\ response'.body = <<serialize_cocktail(id)'>>
        /\ Done(id) =>
            /\ serialize_cocktail(id)' = serialize_cocktail(id)
            /\ OfCocktail(cocktail_ingredients, id)'
                = OfCocktail(cocktail_ingredients, id)
            /\ OfCocktail(instructions, id)' = OfCocktail(instructions, id)
            /\ OfCocktail(cocktail_garnishes, id)'
                = OfCocktail(cocktail_garnishes, id)
            /\ OfCocktail(cocktail_tags, id)' = OfCocktail(cocktail_tags, id)
            /\ response'.op = "get" /\ response'.arg = id =>
                response'.body = <<serialize_cocktail(id)>>
      ]_vars

\* get_cocktail returned the first recipe after a later create_cocktail call
\* that wrote ingredient lines, steps and links had returned as well.
C16_Witness ==
    /\ Returned(response, "get")
    /\ response.arg = 1
    /\ Done(1)
    /\ Done(2)
    /\ InputOf(2) = Daiquiri

\* C17 (reads are pure): a step of get_cocktail, whether it answers 200 or
\* 404, or of get_cocktails leaves all eight tables unchanged.
C17_ReadsPure ==
    [][response'.op \in {"get", "list"} => UNCHANGED tables]_vars

\* get_cocktail returned a document while a create_cocktail call was between
\* two of its database statements.
C17_Witness ==
    /\ Returned(response, "get")
    /\ \E w \in Workers : pc[w] \in {"query", "insert"}

====
